---- MODULE Spec2Model ----
(***************************************************************************)
(* A model of progress_tracker.py: the ProgressTracker batch pipeline      *)
(* (load the reference dataset, discover the catalogs, match, calculate,   *)
(* print the text report, write the site).                                 *)
(*                                                                         *)
(* Representation.  A Python str is a sequence of one-character strings,   *)
(* so that substring tests, replace(), lower() and title() are computed.   *)
(* A float percentage is kept exact: the unrounded value as a fraction     *)
(* [num, den], a value rounded to k decimals as an integer number of       *)
(* 10^-k units (30.0 rounded to two decimals is 3000).  An uncaught Python *)
(* exception ends the run: pc = "crashed" and exc names the exception.     *)
(*                                                                         *)
(* Specifications.  Spec is one run of main() on any reference dataset and *)
(* directory of the bounds.  SpecSite is main() run again and again on the *)
(* same inputs while the user edits docs/.  SpecMany is one run on a long  *)
(* reference list, SpecDate one run on a game of any release date.         *)
(***************************************************************************)
EXTENDS Integers, Sequences, FiniteSets, TLC

VARIABLES
    fs_dead,            \* the file dead_consoles.json: Absent or its JSON document
    fs_dir,             \* os.listdir('.'): the files, in listing order
    docs,               \* the output directory docs/
    pc,                 \* position of main()
    exc,                \* the uncaught exception, "none" while running
    dead_consoles,      \* self.dead_consoles
    console_databases,  \* self.console_databases (an insertion-ordered dict)
    stdout,             \* what was printed, in order
    clock,              \* datetime.now(), in ticks
    runs                \* what the earlier runs of main() left: their report and index.html

vars == <<fs_dead, fs_dir, docs, pc, exc, dead_consoles, console_databases, stdout,
          clock, runs>>

----------------------------------------------------------------------------
(* Bounds of the model *)

\* longest reference list
MaxRefs == 2
\* most files in the scanned directory
MaxFiles == 2
\* most runs of main() one after the other
MaxRuns == 2
\* longest reference list of the runs that have many consoles missing
MaxMany == 13

----------------------------------------------------------------------------
(* Python str operations *)

Uppers == <<"A","B","C","D","E","F","G","H","I","J","K","L","M",
            "N","O","P","Q","R","S","T","U","V","W","X","Y","Z">>
Lowers == <<"a","b","c","d","e","f","g","h","i","j","k","l","m",
            "n","o","p","q","r","s","t","u","v","w","x","y","z">>

\* the characters of the model's strings: the letters, and the others it uses
Chars ==
    {Uppers[i] : i \in 1..26} \cup {Lowers[i] : i \in 1..26}
    \cup {" ", "_", "-", ".", "0", "1", "2", "3", "4", "5", "6", "7", "8", "9"}

\* c.lower(), c.upper() and c.isalpha() of a single character
LowerChar == [c \in Chars |->
    IF \E i \in 1..26 : Uppers[i] = c
    THEN Lowers[CHOOSE i \in 1..26 : Uppers[i] = c] ELSE c]
UpperChar == [c \in Chars |->
    IF \E i \in 1..26 : Lowers[i] = c
    THEN Uppers[CHOOSE i \in 1..26 : Lowers[i] = c] ELSE c]
IsCased == [c \in Chars |-> LowerChar[c] # UpperChar[c]]

\* str.lower()
lower(s) == [i \in 1..Len(s) |-> LowerChar[s[i]]]

\* str.title(): a cased character is upper-cased when the character before it
\* is not cased (or it is the first), lower-cased otherwise
title(s) ==
    [i \in 1..Len(s) |->
        IF i > 1 /\ IsCased[s[i-1]] THEN LowerChar[s[i]] ELSE UpperChar[s[i]]]

\* str.startswith(p)
startswith(s, p) == Len(p) <= Len(s) /\ SubSeq(s, 1, Len(p)) = p

\* str.endswith(p)
endswith(s, p) == Len(p) <= Len(s) /\ SubSeq(s, Len(s) - Len(p) + 1, Len(s)) = p

\* the Python test `sub in s` on two str
contains(s, sub) ==
    \E i \in 0..(Len(s) - Len(sub)) : SubSeq(s, i + 1, i + Len(sub)) = sub

\* str.replace(old, new), old non-empty: non-overlapping occurrences, left to right
RECURSIVE replace(_, _, _)
replace(s, old, new) ==
    IF s = <<>> THEN <<>>
    ELSE IF startswith(s, old)
         THEN new \o replace(SubSeq(s, Len(old) + 1, Len(s)), old, new)
         ELSE <<Head(s)>> \o replace(Tail(s), old, new)

----------------------------------------------------------------------------
(* String literals of the program *)

DEAD_FILE == <<"d","e","a","d","_","c","o","n","s","o","l","e","s",".","j","s","o","n">>
GAMES_SUFFIX == <<"_","g","a","m","e","s",".","j","s","o","n">>
UNDERSCORE == <<"_">>
SPACE == <<" ">>
HYPHEN == <<"-">>
UNKNOWN == <<"U","n","k","n","o","w","n">>

----------------------------------------------------------------------------
(* Python values *)

\* what open() finds when the file does not exist
Absent == [kind |-> "absent"]
\* a file whose text is not JSON (json.load raises JSONDecodeError)
InvalidJson == [kind |-> "invalid"]
\* a JSON document that is a number
JsonNumber == [kind |-> "number"]
\* a JSON object; a dict is a function from its keys to their values
JsonObject(fields) == [kind |-> "object", fields |-> fields]

\* a directory entry that is itself a directory (open() raises IsADirectoryError)
Directory == [kind |-> "directory"]

\* the empty dict {}
EmptyDict == <<>>

\* dict.get(key, default)
DictGet(d, key, default) == IF key \in DOMAIN d THEN d[key] ELSE default

\* an insertion-ordered dict is a sequence of [key, val]; d[k] = v keeps the
\* position of a key that is already there
OrderedSet(d, k, v) ==
    IF \E i \in 1..Len(d) : d[i].key = k
    THEN [i \in 1..Len(d) |-> IF d[i].key = k THEN [key |-> k, val |-> v] ELSE d[i]]
    ELSE Append(d, [key |-> k, val |-> v])

\* the sequences over S of length at most n
SeqsUpTo(S, n) == UNION {[1..k -> S] : k \in 0..n}

\* the mutant of Place: elements with an equal key come out in reverse order
PlaceUnstable(keys, i) ==
    Cardinality({j \in 1..Len(keys) : keys[j] > keys[i]})
    + Cardinality({j \in 1..Len(keys) : j > i /\ keys[j] = keys[i]}) + 1

\* where the stable descending sort puts element i of a list with these keys:
\* after every element with a greater key and after the earlier elements
\* with an equal key
Place(keys, i) ==
    Cardinality({j \in 1..Len(keys) : keys[j] > keys[i]})
    + Cardinality({j \in 1..Len(keys) : j < i /\ keys[j] = keys[i]}) + 1

\* Python's sorted(xs, key=..., reverse=True) and list.sort(key=..., reverse=True),
\* keys[i] the key of xs[i]: descending, and stable
SortedDesc(xs, keys) ==
    [p \in 1..Len(xs) |-> xs[CHOOSE i \in 1..Len(xs) : Place(keys, i) = p]]

\* Python's round(num/den, k) on an exact fraction, scale = 10^k, as an integer
\* number of 1/scale units; a tie goes to the even neighbour
RoundScaled(num, den, scale) ==
    LET n == num * scale
        q == n \div den
        r == n % den
    IN  IF 2 * r < den THEN q
        ELSE IF 2 * r > den THEN q + 1
        ELSE IF q % 2 = 0 THEN q ELSE q + 1

----------------------------------------------------------------------------
(* The inputs: the reference dataset and the scanned directory *)

GAME_BOY == <<"G","a","m","e"," ","B","o","y">>
GAME_BOY_ADVANCE == <<"G","a","m","e"," ","B","o","y"," ","A","d","v","a","n","c","e">>
GAME_BOY_UPPER == <<"G","A","M","E"," ","B","O","Y">>
VIRTUAL_BOY == <<"V","i","r","t","u","a","l"," ","B","o","y">>

Console(name, total) ==
    [console |-> name, manufacturer |-> "Nintendo", generation |-> 4,
     release_year |-> 1989, discontinuation_year |-> 2003,
     total_official_games |-> total]

\* the reference consoles a dataset is drawn from: totals of 0, of fewer games
\* than a catalog holds, and of 25000, where one game is 0.004 percent
RefPool ==
    { Console(GAME_BOY, 10),
      Console(GAME_BOY_ADVANCE, 2),
      Console(GAME_BOY_UPPER, 25000),
      Console(VIRTUAL_BOY, 0) }

Game(i) == [title |-> <<"T", "i", "t", "l", "e">> \o <<ToString(i)>>]
Games(n) == [i \in 1..n |-> Game(i)]

File(name, content) == [filename |-> name, content |-> content]

F_GAME_BOY == <<"g","a","m","e","_","b","o","y">> \o GAMES_SUFFIX
F_GAME_BOY_CAPS == <<"G","a","m","e","_","B","o","y">> \o GAMES_SUFFIX
F_GAME_BOY_ADVANCE ==
    <<"g","a","m","e","_","b","o","y","_","a","d","v","a","n","c","e">> \o GAMES_SUFFIX
F_BOY == <<"b","o","y">> \o GAMES_SUFFIX
F_BAD == <<"b","a","d">> \o GAMES_SUFFIX
F_NUM == <<"n","u","m">> \o GAMES_SUFFIX
F_NONE == <<"n","o","n","e">> \o GAMES_SUFFIX
F_README == <<"r","e","a","d","m","e",".","m","d">>
DOCS == <<"d","o","c","s">>

\* the files a directory is drawn from: catalogs of one, two and three games,
\* two of them with one derived name; a file that is not JSON, a JSON number,
\* an object without games; and a file that is no catalog
FilePool ==
    { File(F_GAME_BOY, JsonObject([games |-> Games(1)])),
      File(F_GAME_BOY_CAPS,
           JsonObject([games |-> Games(3), last_updated |-> <<"2","0","2","4">>])),
      File(F_GAME_BOY_ADVANCE, JsonObject([games |-> Games(2)])),
      File(F_BOY, JsonObject([games |-> Games(2)])),
      File(F_BAD, InvalidJson),
      File(F_NUM, JsonNumber),
      File(F_NONE, JsonObject([last_updated |-> <<"2","0","2","4">>])),
      File(F_README, JsonNumber) }

\* a directory holds no two files of one name
Listings ==
    { l \in SeqsUpTo(FilePool, MaxFiles) :
        \A i, j \in 1..Len(l) : i # j => l[i].filename # l[j].filename }

\* the documents dead_consoles.json may hold
DeadFiles ==
    {Absent, InvalidJson} \cup {JsonObject([consoles |-> l]) : l \in SeqsUpTo(RefPool, MaxRefs)}

\* the output directory before the first run: nothing there (index is <<>>
\* while index.html is absent, and holds the document once it is written)
NoDocs == [dir |-> FALSE, css |-> "absent", js |-> "absent", index |-> <<>>]

Init ==
    /\ fs_dead \in DeadFiles
    /\ fs_dir \in Listings
    /\ docs = NoDocs
    /\ pc = "start"
    /\ exc = "none"
    /\ dead_consoles = EmptyDict
    /\ console_databases = <<>>
    /\ stdout = <<>>
    /\ clock = 0
    /\ runs = <<>>

----------------------------------------------------------------------------
(* ProgressTracker *)

\* a printed line (or block of lines): what it is and the values it shows
Line(tag, val) == [tag |-> tag, val |-> val]

\* the outcome of a method: its return value, what it printed, and the
\* exception it raised ("none" when it returned)
Outcome(value, out, e) == [value |-> value, out |-> out, exc |-> e]

\* Python truthiness of a dict
Truthy(d) == DOMAIN d # {}

\* load_dead_consoles: FileNotFoundError is caught, a JSONDecodeError is not
load_dead_consoles(file) ==
    CASE file.kind = "absent" ->
            Outcome(EmptyDict, <<Line("dead_consoles_not_found", DEAD_FILE)>>, "none")
      [] file.kind = "invalid" -> Outcome(EmptyDict, <<>>, "JSONDecodeError")
      [] OTHER -> Outcome(file.fields, <<>>, "none")

\* the console name find_console_databases derives from a file name
console_name_of(filename) ==
    title(replace(replace(filename, GAMES_SUFFIX, <<>>), UNDERSCORE, SPACE))

\* a mutant of find_one: every directory entry is read as a catalog
find_one_unfiltered(acc, file) ==
    CASE file.content.kind = "invalid" ->
            Outcome(acc.value, Append(acc.out, Line("error_reading", file.filename)), "none")
      [] file.content.kind = "directory" -> Outcome(acc.value, acc.out, "IsADirectoryError")
      [] file.content.kind = "number" -> Outcome(acc.value, acc.out, "TypeError")
      [] OTHER ->
            IF "games" \in DOMAIN file.content.fields
            THEN Outcome(
                    OrderedSet(acc.value, console_name_of(file.filename),
                        [filename |-> file.filename,
                         data |-> file.content.fields,
                         game_count |-> Len(file.content.fields.games),
                         last_updated |->
                            DictGet(file.content.fields, "last_updated", UNKNOWN)]),
                    acc.out, "none")
            ELSE acc

\* the body of the loop of find_console_databases for one directory entry;
\* acc is the Outcome so far, its value the databases dict
find_one(acc, file) ==
    IF ~(endswith(file.filename, GAMES_SUFFIX) /\ file.filename # DEAD_FILE)
    THEN acc
    ELSE CASE file.content.kind = "invalid" ->
                Outcome(acc.value,
                        Append(acc.out, Line("error_reading", file.filename)), "none")
           [] file.content.kind = "directory" ->
                \* open() of a directory: IsADirectoryError, which is not caught
                Outcome(acc.value, acc.out, "IsADirectoryError")
           [] file.content.kind = "number" ->
                \* 'games' in data, data an int: TypeError, which is not caught
                Outcome(acc.value, acc.out, "TypeError")
           [] OTHER ->
                IF "games" \in DOMAIN file.content.fields
                THEN Outcome(
                        OrderedSet(acc.value, console_name_of(file.filename),
                            [filename |-> file.filename,
                             data |-> file.content.fields,
                             game_count |-> Len(file.content.fields.games),
                             last_updated |->
                                DictGet(file.content.fields, "last_updated", UNKNOWN)]),
                        acc.out, "none")
                ELSE acc

\* find_console_databases over the listing, from entry i on
RECURSIVE find_from(_, _, _)
find_from(listing, i, acc) ==
    IF i > Len(listing) \/ acc.exc # "none" THEN acc
    ELSE find_from(listing, i + 1, find_one(acc, listing[i]))

find_console_databases(listing) == find_from(listing, 1, Outcome(<<>>, <<>>, "none"))

\* os.listdir('.'): the files of the working directory and, once it exists, the
\* output directory docs, which is made there; the order is the system's, so
\* docs may come at any place among the files
listdir(files, d) ==
    IF ~d.dir THEN {files}
    ELSE { SubSeq(files, 1, p) \o <<File(DOCS, Directory)>>
                \o SubSeq(files, p + 1, Len(files)) : p \in 0..Len(files) }

\* self.dead_consoles.get('consoles', [])
consoles_of(dead) == DictGet(dead, "consoles", <<>>)

\* a mutant of get_console_info: the last console that matches
get_console_info_last(dead, console_name) ==
    LET cs == consoles_of(dead)
        hits == {i \in 1..Len(cs) : contains(lower(cs[i].console), lower(console_name))}
    IN  IF hits = {} THEN EmptyDict
        ELSE cs[CHOOSE i \in hits : \A j \in hits : i >= j]

\* a mutant of get_console_info: the names are compared as they are written
get_console_info_cased(dead, console_name) ==
    LET cs == consoles_of(dead)
        hits == {i \in 1..Len(cs) : contains(cs[i].console, console_name)}
    IN  IF hits = {} THEN EmptyDict
        ELSE cs[CHOOSE i \in hits : \A j \in hits : i <= j]

\* get_console_info: the first console of the list with
\* console_name.lower() in console['console'].lower(), {} when there is none
get_console_info(dead, console_name) ==
    LET cs == consoles_of(dead)
        hits == {i \in 1..Len(cs) : contains(lower(cs[i].console), lower(console_name))}
    IN  IF hits = {} THEN EmptyDict
        ELSE cs[CHOOSE i \in hits : \A j \in hits : i <= j]

\* percentage = (current_games / total_games) * 100 if total_games > 0 else 0
percentage_of(current_games, total_games) ==
    IF total_games > 0 THEN [num |-> 100 * current_games, den |-> total_games]
    ELSE [num |-> 0, den |-> 1]

\* the mutant of round2: the percentage cut to two decimals, not rounded
round2_cut(percentage) == (percentage.num * 100) \div percentage.den

\* round(percentage, 2), in hundredths
round2(percentage) == RoundScaled(percentage.num, percentage.den, 100)

\* get_status, on the unrounded percentage
get_status(percentage) ==
    IF percentage.num >= 100 * percentage.den THEN "Complete"
    ELSE IF percentage.num >= 75 * percentage.den THEN "Nearly Done"
    ELSE IF percentage.num >= 50 * percentage.den THEN "In Progress"
    ELSE IF percentage.num >= 25 * percentage.den THEN "Started"
    ELSE IF percentage.num > 0 THEN "Minimal"
    ELSE "Not Started"

\* get_status_class, on a percentage in hundredths
get_status_class(pct) ==
    IF pct >= 10000 THEN "status-complete"
    ELSE IF pct >= 7500 THEN "status-nearly"
    ELSE IF pct >= 5000 THEN "status-progress"
    ELSE IF pct >= 2500 THEN "status-started"
    ELSE IF pct > 0 THEN "status-minimal"
    ELSE "status-none"

\* the entry calculate_progress appends for a database and the console matched
progress_entry(db_info, console_info) ==
    LET total_games == console_info.total_official_games
        current_games == db_info.game_count
        percentage == percentage_of(current_games, total_games)
    IN  [console |-> console_info.console,
         manufacturer |-> console_info.manufacturer,
         generation |-> console_info.generation,
         release_year |-> console_info.release_year,
         discontinuation_year |-> console_info.discontinuation_year,
         total_official_games |-> total_games,
         current_games |-> current_games,
         percentage_complete |-> round2(percentage),
         filename |-> db_info.filename,
         last_updated |-> db_info.last_updated,
         status |-> get_status(percentage)]

\* progress_data of calculate_progress before it is sorted: one entry for each
\* database whose name get_console_info matches, in the order of the dict
RECURSIVE progress_unsorted(_, _)
progress_unsorted(dead, dbs) ==
    IF dbs = <<>> THEN <<>>
    ELSE LET console_info == get_console_info(dead, Head(dbs).key)
             rest == progress_unsorted(dead, Tail(dbs))
         IN  IF Truthy(console_info)
             THEN <<progress_entry(Head(dbs).val, console_info)>> \o rest
             ELSE rest

\* calculate_progress
calculate_progress(dead, dbs) ==
    LET progress_data == progress_unsorted(dead, dbs)
    IN  SortedDesc(progress_data,
                   [i \in 1..Len(progress_data) |-> progress_data[i].percentage_complete])

\* sum(p[field] for p in progress_data)
RECURSIVE SumOf(_, _)
SumOf(progress_data, field) ==
    IF progress_data = <<>> THEN 0
    ELSE Head(progress_data)[field] + SumOf(Tail(progress_data), field)

\* bar_length of print_detailed_progress
bar_length == 30

\* '█' * n and '░' * n: a str repeated a negative number of times is empty
Repeated(n) == IF n > 0 THEN n ELSE 0

\* print_summary: the coverage line divides by the number of reference consoles
print_summary(dead, dbs) ==
    LET progress_data == calculate_progress(dead, dbs)
        total_consoles == Len(consoles_of(dead))
        databases_created == Len(progress_data)
        head == <<Line("total_consoles", total_consoles),
                  Line("databases_created", databases_created)>>
        total_games_target == SumOf(progress_data, "total_official_games")
        total_games_current == SumOf(progress_data, "current_games")
        overall_percentage == percentage_of(total_games_current, total_games_target)
    IN  IF total_consoles = 0 THEN Outcome(<<>>, head, "ZeroDivisionError")
        ELSE Outcome(<<>>,
                head
                \o <<Line("coverage", RoundScaled(databases_created * 100, total_consoles, 10))>>
                \o (IF progress_data # <<>>
                    THEN <<Line("overall",
                                [current |-> total_games_current,
                                 target |-> total_games_target,
                                 percentage |-> RoundScaled(overall_percentage.num,
                                                            overall_percentage.den, 10)])>>
                    ELSE <<>>),
                "none")

\* the lines print_detailed_progress prints for one entry, the bar last
detail_of(console) ==
    LET filled_length == (bar_length * console.percentage_complete) \div (100 * 100)
    IN  Line("detail",
             [entry |-> console,
              filled |-> Repeated(filled_length),
              unfilled |-> Repeated(bar_length - filled_length)])

\* print_detailed_progress
print_detailed_progress(dead, dbs) ==
    LET progress_data == calculate_progress(dead, dbs)
    IN  IF progress_data = <<>>
        THEN Outcome(<<>>, <<Line("no_databases", <<>>)>>, "none")
        ELSE Outcome(<<>>,
                [i \in 1..Len(progress_data) |-> detail_of(progress_data[i])], "none")

\* existing_consoles of print_missing_consoles and get_missing_consoles: the
\* names of the consoles that match the name of some database
existing_consoles(dead, dbs) ==
    LET cs == consoles_of(dead)
    IN  {cs[i].console : i \in
            {i \in 1..Len(cs) : \E k \in 1..Len(dbs) :
                contains(lower(cs[i].console), lower(dbs[k].key))}}

\* a mutant of get_missing_consoles: the list is returned as it was collected
get_missing_consoles_unsorted(dead, dbs) ==
    SelectSeq(consoles_of(dead),
              LAMBDA console : console.console \notin existing_consoles(dead, dbs))

\* missing_consoles before it is sorted
missing_unsorted(dead, dbs) ==
    LET existing == existing_consoles(dead, dbs)
    IN  SelectSeq(consoles_of(dead), LAMBDA console : console.console \notin existing)

\* get_missing_consoles
get_missing_consoles(dead, dbs) ==
    LET missing_consoles == missing_unsorted(dead, dbs)
    IN  SortedDesc(missing_consoles,
                   [i \in 1..Len(missing_consoles) |->
                        missing_consoles[i].total_official_games])

\* print_missing_consoles: the same list, computed by the same code
print_missing_consoles(dead, dbs) ==
    LET missing_consoles == missing_unsorted(dead, dbs)
        printed == SortedDesc(missing_consoles,
                       [i \in 1..Len(missing_consoles) |->
                            missing_consoles[i].total_official_games])
    IN  Outcome(<<>>, [i \in 1..Len(printed) |-> Line("missing", printed[i])], "none")

\* generate_report: the three sections, then the timestamp line
generate_report(dead, dbs, now) ==
    LET summary == print_summary(dead, dbs)
    IN  IF summary.exc # "none" THEN summary
        ELSE Outcome(<<>>,
                summary.out
                \o print_detailed_progress(dead, dbs).out
                \o print_missing_consoles(dead, dbs).out
                \o <<Line("report_generated", now)>>,
                "none")

\* a mutant of ensure_site_assets: the two assets are written on every call
ensure_site_assets_always(d) ==
    [d EXCEPT !.dir = TRUE, !.css = "generated", !.js = "generated"]

\* ensure_site_assets: the directory and the two assets are created when missing
ensure_site_assets(d) ==
    [d EXCEPT !.dir = TRUE,
              !.css = IF d.css = "absent" THEN "generated" ELSE d.css,
              !.js = IF d.js = "absent" THEN "generated" ELSE d.js]

\* what ensure_site_assets prints: a line for each thing it creates
ensure_site_assets_out(d) ==
    (IF ~d.dir THEN <<Line("created_dir", <<>>)>> ELSE <<>>)
    \o (IF d.css = "absent" THEN <<Line("generating_css", <<>>)>> ELSE <<>>)
    \o (IF d.js = "absent" THEN <<Line("generating_js", <<>>)>> ELSE <<>>)

\* name.lower().replace(' ', '-')
console_key_of(name) == replace(lower(name), SPACE, HYPHEN)

\* generate_console_cards
generate_console_cards(progress_data) ==
    [i \in 1..Len(progress_data) |->
        [console |-> progress_data[i],
         status_class |-> get_status_class(progress_data[i].percentage_complete)]]

\* how many missing consoles generate_missing_consoles_section shows
SHOWN_MISSING == 12

\* generate_missing_consoles_section: no section ("", here <<>>) for an empty
\* list, else one section with the items of missing_consoles[:12]
generate_missing_consoles_section(missing_consoles) ==
    IF missing_consoles = <<>> THEN <<>>
    ELSE << SubSeq(missing_consoles, 1,
                   IF Len(missing_consoles) < SHOWN_MISSING THEN Len(missing_consoles)
                   ELSE SHOWN_MISSING) >>

\* generate_console_filter_options
generate_console_filter_options(progress_data) ==
    [i \in 1..Len(progress_data) |->
        [value |-> console_key_of(progress_data[i].console),
         text |-> progress_data[i].console]]

\* the decimal digits, and int() and str() on numerals
DIGITS == <<"0","1","2","3","4","5","6","7","8","9">>
IsDigit(c) == \E i \in 1..Len(DIGITS) : DIGITS[i] = c
DigitVal(c) == (CHOOSE i \in 1..Len(DIGITS) : DIGITS[i] = c) - 1

RECURSIVE IntOf(_)
IntOf(s) ==
    IF s = <<>> THEN 0
    ELSE Len(DIGITS) * IntOf(SubSeq(s, 1, Len(s) - 1)) + DigitVal(s[Len(s)])

RECURSIVE StrOf(_)
StrOf(n) ==
    IF n < Len(DIGITS) THEN <<DIGITS[n + 1]>>
    ELSE StrOf(n \div Len(DIGITS)) \o <<DIGITS[(n % Len(DIGITS)) + 1]>>

\* the month names of strftime's %b
MONTHS ==
    << <<"J","a","n">>, <<"F","e","b">>, <<"M","a","r">>, <<"A","p","r">>,
       <<"M","a","y">>, <<"J","u","n">>, <<"J","u","l">>, <<"A","u","g">>,
       <<"S","e","p">>, <<"O","c","t">>, <<"N","o","v">>, <<"D","e","c">> >>

\* the days of a month of the calendar of datetime
IsLeap(year) == year % 4 = 0 /\ (year % 100 # 0 \/ year % 400 = 0)
DaysIn(year, month) ==
    IF month = 2 THEN (IF IsLeap(year) THEN 29 ELSE 28)
    ELSE IF month \in {4, 6, 9, 11} THEN 30 ELSE 31

\* a date that did not parse (strptime raises ValueError)
NoDate == [ok |-> FALSE, year |-> 0, month |-> 0, day |-> 0]

\* datetime.strptime(s, '%Y-%m-%d') for s of ten characters, all of which must
\* be used: %Y is four digits, %m is 01..12, %d is 01..31 or a space and a
\* digit 1..9; then the date must be one of the calendar, from year 1 on
strptime(s) ==
    LET month_ok ==
            \/ s[6] = "1" /\ s[7] \in {"0", "1", "2"}
            \/ s[6] = "0" /\ IsDigit(s[7]) /\ s[7] # "0"
        day_ok ==
            \/ s[9] = "3" /\ s[10] \in {"0", "1"}
            \/ s[9] \in {"1", "2"} /\ IsDigit(s[10])
            \/ s[9] \in {"0", " "} /\ IsDigit(s[10]) /\ s[10] # "0"
        year == IntOf(SubSeq(s, 1, 4))
        month == IntOf(SubSeq(s, 6, 7))
        day == IF s[9] = " " THEN DigitVal(s[10]) ELSE IntOf(SubSeq(s, 9, 10))
    IN  IF /\ \A i \in 1..4 : IsDigit(s[i])
           /\ s[5] = "-" /\ s[8] = "-"
           /\ month_ok /\ day_ok
        THEN IF year >= 1 /\ day <= DaysIn(year, month)
             THEN [ok |-> TRUE, year |-> year, month |-> month, day |-> day]
             ELSE NoDate
        ELSE NoDate

\* date_obj.strftime('%b %d, %Y'): the day in two digits; the year as the C
\* library prints it, which is without leading zeros
strftime(date) ==
    MONTHS[date.month] \o SPACE
    \o (IF date.day < 10 THEN <<"0">> ELSE <<>>) \o StrOf(date.day)
    \o <<",", " ">> \o StrOf(date.year)

\* format_date, on a str; every exception of the parse is caught
format_date(date_string) ==
    IF date_string = <<>> \/ date_string = UNKNOWN THEN UNKNOWN
    ELSE IF Len(date_string) = 4 THEN date_string
    ELSE IF Len(date_string) >= 10
         THEN LET date_obj == strptime(SubSeq(date_string, 1, 10))
              IN  IF date_obj.ok THEN strftime(date_obj) ELSE date_string
         ELSE date_string

\* the card generate_all_games_html makes for a game
game_card(game, console_name) ==
    LET release_date == DictGet(game, "release_date", <<>>)
    IN  [title |-> DictGet(game, "title", UNKNOWN),
         developer |-> DictGet(game, "developer", UNKNOWN),
         publisher |-> DictGet(game, "publisher", UNKNOWN),
         console_key |-> console_key_of(console_name),
         console_name |-> console_name,
         year |-> IF release_date # <<>>
                  THEN SubSeq(release_date, 1,
                              IF Len(release_date) < 4 THEN Len(release_date) ELSE 4)
                  ELSE UNKNOWN,
         release_date |-> release_date,
         released |-> format_date(DictGet(game, "release_date", UNKNOWN))]

\* a mutant of generate_all_games_html: the games of a database that matches
\* no console are left out
RECURSIVE generate_all_games_html_matched(_, _)
generate_all_games_html_matched(dead, dbs) ==
    IF dbs = <<>> THEN <<>>
    ELSE LET console_info == get_console_info(dead, Head(dbs).key)
             games == DictGet(Head(dbs).val.data, "games", <<>>)
         IN  (IF Truthy(console_info)
              THEN [i \in 1..Len(games) |-> game_card(games[i], console_info.console)]
              ELSE <<>>)
             \o generate_all_games_html_matched(dead, Tail(dbs))

\* generate_all_games_html: a card for every game of every database, under the
\* name of the matched console, or of the database when none matches
RECURSIVE generate_all_games_html(_, _)
generate_all_games_html(dead, dbs) ==
    IF dbs = <<>> THEN <<>>
    ELSE LET console_info == get_console_info(dead, Head(dbs).key)
             console_name == DictGet(console_info, "console", Head(dbs).key)
             games == DictGet(Head(dbs).val.data, "games", <<>>)
         IN  [i \in 1..Len(games) |-> game_card(games[i], console_name)]
             \o generate_all_games_html(dead, Tail(dbs))

\* the document generate_html_site writes to docs/index.html; generated is the
\* timestamp of the header's "Last Updated" and of the footer's "Last generated"
html_content(dead, dbs, now) ==
    LET progress_data == calculate_progress(dead, dbs)
        total_games_target == SumOf(progress_data, "total_official_games")
        total_games_current == SumOf(progress_data, "current_games")
        overall_percentage == percentage_of(total_games_current, total_games_target)
    IN  [total_consoles |-> Len(consoles_of(dead)),
         databases_created |-> Len(progress_data),
         total_games_current |-> total_games_current,
         overall_percentage |->
            RoundScaled(overall_percentage.num, overall_percentage.den, 10),
         cards |-> generate_console_cards(progress_data),
         missing |-> generate_missing_consoles_section(get_missing_consoles(dead, dbs)),
         options |-> generate_console_filter_options(progress_data),
         games |-> generate_all_games_html(dead, dbs),
         generated |-> now]

----------------------------------------------------------------------------
(* main(): the three calls, one action each *)

\* tracker = ProgressTracker(): __init__ loads the reference dataset and
\* discovers the catalogs
Construct ==
    /\ pc = "start"
    /\ \E listing \in listdir(fs_dir, docs) :
        LET loaded == load_dead_consoles(fs_dead)
            found == find_console_databases(listing)
        IN  IF loaded.exc # "none"
            THEN /\ pc' = "crashed"
                 /\ exc' = loaded.exc
                 /\ stdout' = stdout \o loaded.out
                 /\ UNCHANGED <<dead_consoles, console_databases>>
            ELSE /\ dead_consoles' = loaded.value
                 /\ stdout' = stdout \o loaded.out \o found.out
                 /\ IF found.exc # "none"
                    THEN /\ pc' = "crashed"
                         /\ exc' = found.exc
                         /\ UNCHANGED console_databases
                    ELSE /\ pc' = "constructed"
                         /\ exc' = "none"
                         /\ console_databases' = found.value
    /\ UNCHANGED <<fs_dead, fs_dir, docs, clock, runs>>

\* tracker.generate_report()
GenerateReport ==
    /\ pc = "constructed"
    /\ LET report == generate_report(dead_consoles, console_databases, clock)
       IN  /\ stdout' = stdout \o report.out
           /\ exc' = report.exc
           /\ pc' = IF report.exc # "none" THEN "crashed" ELSE "reported"
    /\ UNCHANGED <<fs_dead, fs_dir, docs, dead_consoles, console_databases, clock, runs>>

\* tracker.generate_html_site(): the assets when they are missing, then
\* index.html, whatever is there
GenerateHtmlSite ==
    /\ pc = "reported"
    /\ docs' = [ensure_site_assets(docs) EXCEPT
                    !.index = <<html_content(dead_consoles, console_databases, clock)>>]
    /\ stdout' = stdout \o ensure_site_assets_out(docs)
                        \o <<Line("website_generated", <<>>)>>
    /\ pc' = "done"
    /\ UNCHANGED <<fs_dead, fs_dir, exc, dead_consoles, console_databases, clock, runs>>

Next == Construct \/ GenerateReport \/ GenerateHtmlSite

Spec == Init /\ [][Next]_vars

----------------------------------------------------------------------------
(* main() run again and again, the user editing docs/ in between *)

\* an index.html the user wrote
EditedDocument == [edited |-> TRUE]

\* what the user may do to docs/: write or delete style.css, script.js or
\* index.html (making the directory for it), or remove the directory
UserEdits(d) ==
    { [d EXCEPT !.dir = TRUE, !.css = "edited"],
      [d EXCEPT !.dir = TRUE, !.js = "edited"],
      [d EXCEPT !.dir = TRUE, !.index = <<EditedDocument>>],
      [d EXCEPT !.css = "absent"],
      [d EXCEPT !.js = "absent"],
      [d EXCEPT !.index = <<>>],
      NoDocs } \ {d}

\* the directories of the repeated runs: empty, of one and of two valid
\* catalogs, and of a catalog that ends the scan
SiteListings ==
    { <<>>,
      <<File(F_GAME_BOY, JsonObject([games |-> Games(1)]))>>,
      <<File(F_BOY, JsonObject([games |-> Games(2)])),
        File(F_GAME_BOY, JsonObject([games |-> Games(1)]))>>,
      <<File(F_NUM, JsonNumber)>> }

\* the reference datasets of the repeated runs: none, and one of two consoles
SiteDeadFiles ==
    { Absent,
      JsonObject([consoles |-> <<Console(GAME_BOY, 10), Console(GAME_BOY_ADVANCE, 2)>>]) }

InitSite ==
    /\ fs_dead \in SiteDeadFiles
    /\ fs_dir \in SiteListings
    /\ docs = NoDocs
    /\ pc = "start"
    /\ exc = "none"
    /\ dead_consoles = EmptyDict
    /\ console_databases = <<>>
    /\ stdout = <<>>
    /\ clock = 0
    /\ runs = <<>>

\* the user edits the output directory
UserEdit ==
    /\ \E d \in UserEdits(docs) : docs' = d
    /\ UNCHANGED <<fs_dead, fs_dir, pc, exc, dead_consoles, console_databases, stdout,
                   clock, runs>>

\* what a run printed before generate_html_site: the diagnostics of the
\* construction and the text report
ReportOf(out) ==
    SelectSeq(out, LAMBDA line :
        line.tag \notin {"created_dir", "generating_css", "generating_js",
                         "website_generated"})

\* main() is run again, on the same inputs, at once or a tick later: a new
\* process, with a new tracker and a new terminal
Rerun ==
    /\ pc \in {"done", "crashed"}
    /\ Len(runs) + 1 < MaxRuns
    /\ runs' = Append(runs, [report |-> ReportOf(stdout), exc |-> exc,
                             index |-> docs.index])
    /\ pc' = "start"
    /\ exc' = "none"
    /\ dead_consoles' = EmptyDict
    /\ console_databases' = <<>>
    /\ stdout' = <<>>
    /\ clock' \in {clock, clock + 1}
    /\ UNCHANGED <<fs_dead, fs_dir, docs>>

NextSite == Next \/ UserEdit \/ Rerun

SpecSite == InitSite /\ [][NextSite]_vars

----------------------------------------------------------------------------
(* main() with a long reference list, most of its consoles missing *)

CONSOLE == <<"C","o","n","s","o","l","e">>

\* the name of the i-th console of a long list: Console A, Console B, ...
ManyName(i) == CONSOLE \o SPACE \o <<Uppers[i]>>

\* the total_official_games of the i-th console of a list of n: rising along
\* the list, falling, in runs of three equal totals, or one total for all
ManyTotal(shape, i, n) ==
    CASE shape = "rising" -> 10 * i
      [] shape = "falling" -> 10 * (n - i)
      [] shape = "tied" -> 10 * (i \div 3)
      [] shape = "flat" -> 10

ManyRefs ==
    { [i \in 1..n |-> Console(ManyName(i), ManyTotal(shape, i, n))] :
        n \in 0..MaxMany, shape \in {"rising", "falling", "tied", "flat"} }

\* the directories of these runs: no catalog, the catalog of Console A, and a
\* catalog whose derived name, Console, every console's name holds
ManyListings ==
    { <<>>,
      <<File(lower(CONSOLE) \o UNDERSCORE \o <<"a">> \o GAMES_SUFFIX,
             JsonObject([games |-> Games(1)]))>>,
      <<File(lower(CONSOLE) \o GAMES_SUFFIX, JsonObject([games |-> Games(1)]))>> }

InitMany ==
    /\ fs_dead \in {JsonObject([consoles |-> l]) : l \in ManyRefs}
    /\ fs_dir \in ManyListings
    /\ docs = NoDocs
    /\ pc = "start"
    /\ exc = "none"
    /\ dead_consoles = EmptyDict
    /\ console_databases = <<>>
    /\ stdout = <<>>
    /\ clock = 0
    /\ runs = <<>>

SpecMany == InitMany /\ [][Next]_vars

----------------------------------------------------------------------------
(* main() on a catalog of one game, of any release date *)

\* release dates written year-month-day: years of four digits, one of them
\* below 1000, months and days in and out of the calendar, a day written
\* with a space, and the same followed by a time
DateYears == {<<"1","9","9","0">>, <<"2","0","0","0">>, <<"1","9","0","0">>, <<"0","9","9","9">>}
DateMonths == {<<"0","1">>, <<"0","2">>, <<"1","1">>, <<"1","2">>, <<"1","3">>, <<"0","0">>}
DateDays == {<<"0","1">>, <<"2","9">>, <<"3","0">>, <<"3","1">>, <<" ","5">>, <<"0","0">>, <<"3","2">>}
DateTails == {<<>>, <<"T","1","0",".","3","0">>}
WrittenDates ==
    { y \o HYPHEN \o m \o HYPHEN \o d \o t :
        y \in DateYears, m \in DateMonths, d \in DateDays, t \in DateTails }

\* other values of release_date: empty, Unknown, a year, and strings of other
\* lengths and shapes
OtherDates ==
    { <<>>,
      <<"U","n","k","n","o","w","n">>,
      <<"1","9","9","0">>,
      <<"a","b","c","d">>,
      <<"1","9">>,
      <<"1","9","9","0","-","0","1">>,
      <<"1","9","9","0","0","1","0","5","1">>,
      <<"1","9","9","0","/","0","1","/","0","5">>,
      <<"1","9","9","0","-","1","-","5","x","x">>,
      <<"0","0","0","0","-","0","1","-","0","1">>,
      <<"1","9","9","O","-","0","1","-","0","5">>,
      <<"1","9","9","0","-","0","1","-","0","5"," ","1","2",".","3","0">> }

\* the games of the catalog: without a release_date, or with one
DateGames ==
    {Game(1)}
    \cup {[title |-> Game(1).title, release_date |-> v] : v \in WrittenDates \cup OtherDates}

InitDate ==
    /\ fs_dead = JsonObject([consoles |-> <<Console(GAME_BOY, 10)>>])
    /\ fs_dir \in {<<File(F_GAME_BOY, JsonObject([games |-> <<game>>]))>> : game \in DateGames}
    /\ docs = NoDocs
    /\ pc = "start"
    /\ exc = "none"
    /\ dead_consoles = EmptyDict
    /\ console_databases = <<>>
    /\ stdout = <<>>
    /\ clock = 0
    /\ runs = <<>>

SpecDate == InitDate /\ [][Next]_vars

----------------------------------------------------------------------------
(* What the claims are stated with *)

RangeOf(seq) == {seq[i] : i \in 1..Len(seq)}

\* the reference list the tracker holds
Refs == consoles_of(dead_consoles)

\* the entries of the site's progress cards, the value of calculate_progress
Entries ==
    IF docs.index = <<>> THEN <<>>
    ELSE [i \in 1..Len(docs.index[1].cards) |-> docs.index[1].cards[i].console]

\* the printed lines with a tag
Printed(tag) == SelectSeq(stdout, LAMBDA line : line.tag = tag)

\* the place of a letter in the alphabet, 0 for a character that is no letter
LetterOf == [c \in Chars |->
    IF \E i \in 1..26 : c \in {Uppers[i], Lowers[i]}
    THEN CHOOSE i \in 1..26 : c \in {Uppers[i], Lowers[i]} ELSE 0]

\* two characters are one letter, whatever their case
SameLetter(c, d) == c = d \/ (LetterOf[c] # 0 /\ LetterOf[c] = LetterOf[d])

\* sub occurs in s, letters compared without their case
OccursIn(sub, s) ==
    \E o \in 0..Len(s) :
        /\ o + Len(sub) <= Len(s)
        /\ \A k \in 1..Len(sub) : SameLetter(s[o + k], sub[k])

\* the catalog files of the directory: those named <slug>_games.json
IsCatalogFile(f) == endswith(f.filename, GAMES_SUFFIX)
\* a catalog file that parses to an object with a games field
IsValidCatalog(f) ==
    /\ IsCatalogFile(f)
    /\ f.content.kind = "object"
    /\ "games" \in DOMAIN f.content.fields
\* a catalog file that does not
IsMalformedCatalog(f) == IsCatalogFile(f) /\ ~IsValidCatalog(f)

----------------------------------------------------------------------------
(* C1 *)

\* C1 (as claimed): when dead_consoles.json is absent the run is not aborted:
\* the loader yields an empty reference set, and, whatever valid catalogs the
\* directory holds, main() goes on through generate_report and
\* generate_html_site and writes index.html.
C1_AbsentReferenceRunCompletes ==
    (fs_dead.kind = "absent" /\ \A f \in RangeOf(fs_dir) : ~IsMalformedCatalog(f)) =>
        /\ pc # "crashed"
        /\ pc # "start" => Refs = <<>>
        /\ pc = "done" => docs.index # <<>>

----------------------------------------------------------------------------
(* C2 *)

\* C2 (as claimed): once print_summary has begun, the summary gives the
\* coverage as created/total (to one decimal), as 0 when there is no reference
\* console, and no division fault is raised.
C2_CoverageDefinedForEmptyReference ==
    Printed("total_consoles") # <<>> =>
        LET total == Printed("total_consoles")[1].val
            created == Printed("databases_created")[1].val
        IN  /\ exc # "ZeroDivisionError"
            /\ Printed("coverage") # <<>>
            /\ LET coverage == Printed("coverage")[1].val
               IN  IF total = 0 THEN coverage = 0
                   ELSE /\ 2 * (coverage * total - 1000 * created) <= total
                        /\ 2 * (1000 * created - coverage * total) <= total

----------------------------------------------------------------------------
(* C3 *)

\* C3 (as claimed): a catalog file that does not parse, or parses to something
\* that is not an object with a games field, is skipped: construction does not
\* raise, the file yields no database, and every valid catalog of the
\* directory is discovered under its derived name.
C3_MalformedCatalogSkipped ==
    pc # "start" =>
        /\ exc # "TypeError"
        /\ fs_dead.kind # "invalid" =>
            \A f \in RangeOf(fs_dir) :
                /\ IsMalformedCatalog(f) =>
                    \A k \in 1..Len(console_databases) :
                        console_databases[k].val.filename # f.filename
                /\ IsValidCatalog(f) =>
                    \E k \in 1..Len(console_databases) :
                        console_databases[k].key = console_name_of(f.filename)

----------------------------------------------------------------------------
(* C4 *)

\* the places of the reference list whose console's name holds the derived
\* name, letters compared without their case
MatchingPlaces(name) == {i \in 1..Len(Refs) : OccursIn(name, Refs[i].console)}

\* the first console of the reference list that matches the derived name is
\* the console at place i
IsFirstMatch(name, i) ==
    /\ OccursIn(name, Refs[i].console)
    /\ \A j \in 1..(i - 1) : ~OccursIn(name, Refs[j].console)

\* C4: for every discovered catalog, get_console_info returns the first console
\* of the reference list whose name holds the derived name (case ignored), and
\* no console when no name holds it, also when the derived name holds a
\* console's name; the site's progress card of the catalog is for that console.
C4_MatcherReturnsFirstContaining ==
    \A k \in 1..Len(console_databases) :
        LET name == console_databases[k].key
            found == get_console_info(dead_consoles, name)
            cards == {e \in RangeOf(Entries) :
                        e.filename = console_databases[k].val.filename}
        IN  IF \E i \in 1..Len(Refs) : IsFirstMatch(name, i)
            THEN /\ Truthy(found)
                 /\ \E i \in 1..Len(Refs) :
                        /\ IsFirstMatch(name, i)
                        /\ found = Refs[i]
                        /\ \A e \in cards : e.console = Refs[i].console
                 /\ pc = "done" => cards # {}
            ELSE ~Truthy(found) /\ cards = {}

\* the example of the claim, generated: the references are Game Boy and Game
\* Boy Advance, and the card of the catalog Game Boy is for Game Boy
C4_Witness ==
    /\ pc = "done"
    /\ Len(Refs) = 2
    /\ Refs[1].console = GAME_BOY
    /\ Refs[2].console = GAME_BOY_ADVANCE
    /\ \E e \in RangeOf(Entries) : e.filename = F_GAME_BOY /\ e.console = GAME_BOY

----------------------------------------------------------------------------
(* C5 *)

\* C5: every catalog that matches a console has an entry, and the entry's
\* percentage_complete is 100 * current_games / total_official_games to the
\* nearest hundredth, and 0 with status Not Started when total_official_games
\* is 0; no division fault is raised while the reference list is not empty.
C5_PercentageRoundedOrZero ==
    /\ Refs # <<>> => exc # "ZeroDivisionError"
    /\ pc = "done" =>
        /\ \A k \in 1..Len(console_databases) :
              MatchingPlaces(console_databases[k].key) # {} =>
                  \E e \in RangeOf(Entries) :
                      /\ e.filename = console_databases[k].val.filename
                      /\ e.current_games = console_databases[k].val.game_count
        /\ \A e \in RangeOf(Entries) :
              IF e.total_official_games = 0
              THEN e.percentage_complete = 0 /\ e.status = "Not Started"
              ELSE LET exact == 100 * 100 * e.current_games
                       shown == e.percentage_complete * e.total_official_games
                   IN  /\ 2 * (shown - exact) <= e.total_official_games
                       /\ 2 * (exact - shown) <= e.total_official_games

\* 3 games of 10 is 30.0, beside an entry for a console of no official game
C5_Witness ==
    /\ pc = "done"
    /\ \E e \in RangeOf(Entries) :
          e.current_games = 3 /\ e.total_official_games = 10
          /\ e.percentage_complete = 3000
    /\ \E e \in RangeOf(Entries) :
          e.current_games > 0 /\ e.total_official_games = 0
          /\ e.percentage_complete = 0

----------------------------------------------------------------------------
(* C6 *)

\* C6 (as claimed): every entry has 0 <= percentage_complete <= 100, and, when
\* total_official_games > 0, percentage_complete = 100 exactly when
\* current_games >= total_official_games.
C6_PercentageWithinHundred ==
    \A e \in RangeOf(Entries) :
        /\ 0 <= e.percentage_complete
        /\ e.percentage_complete <= 100 * 100
        /\ e.total_official_games > 0 =>
              (e.percentage_complete = 100 * 100
                    <=> e.current_games >= e.total_official_games)

----------------------------------------------------------------------------
(* C7 *)

\* the tier of a percentage in hundredths, under the thresholds of the claim
TierOf(pct) ==
    IF pct >= 100 * 100 THEN "Complete"
    ELSE IF pct >= 75 * 100 THEN "Nearly Done"
    ELSE IF pct >= 50 * 100 THEN "In Progress"
    ELSE IF pct >= 25 * 100 THEN "Started"
    ELSE IF pct > 0 THEN "Minimal"
    ELSE "Not Started"

\* C7 (as claimed): the status of every entry is the tier of its
\* percentage_complete.
C7_StatusIsTierOfPercentageComplete ==
    \A e \in RangeOf(Entries) : e.status = TierOf(e.percentage_complete)

----------------------------------------------------------------------------
(* C8 *)

\* the place of an entry's catalog in the order of discovery, the order of
\* the dict console_databases
DiscoveryPlace(e) ==
    CHOOSE k \in 1..Len(console_databases) :
        console_databases[k].val.filename = e.filename

\* C8: the entries are in descending order of percentage_complete, and entries
\* of one percentage_complete are in the order their catalogs were discovered.
C8_SortedDescendingAndStable ==
    \A i, j \in 1..Len(Entries) :
        i < j =>
            /\ Entries[i].percentage_complete >= Entries[j].percentage_complete
            /\ Entries[i].percentage_complete = Entries[j].percentage_complete =>
                  DiscoveryPlace(Entries[i]) < DiscoveryPlace(Entries[j])

\* two entries of one percentage_complete, the catalog listed first not the
\* first by name
C8_Witness ==
    /\ pc = "done"
    /\ Len(Entries) = 2
    /\ Entries[1].percentage_complete = Entries[2].percentage_complete
    /\ Entries[1].filename = F_GAME_BOY_ADVANCE
    /\ Entries[2].filename = F_BOY

----------------------------------------------------------------------------
(* C9 *)

\* the value of get_missing_consoles
Missing == get_missing_consoles(dead_consoles, console_databases)

\* the consoles print_missing_consoles printed
MissingPrinted ==
    [i \in 1..Len(Printed("missing")) |-> Printed("missing")[i].val]

\* C9 (as claimed): a reference console is in the missing list, returned and
\* printed, exactly when no entry is for it, that is when get_console_info
\* returns it for no discovered catalog.
C9_MissingIsComplementOfEntries ==
    pc = "done" =>
        \A c \in RangeOf(Refs) :
            LET has_entry == \E e \in RangeOf(Entries) : e.console = c.console
            IN  /\ c \in RangeOf(Missing) <=> ~has_entry
                /\ c \in RangeOf(MissingPrinted) <=> ~has_entry

----------------------------------------------------------------------------
(* C10 *)

\* every discovered catalog's derived name matches at most one reference entry
EachCatalogMatchesAtMostOne ==
    \A k \in 1..Len(console_databases) :
        Cardinality(MatchingPlaces(console_databases[k].key)) <= 1

\* no reference entry is matched by the derived names of two catalogs
NoEntryMatchedTwice ==
    \A k, l \in 1..Len(console_databases) :
        k # l => MatchingPlaces(console_databases[k].key)
                    \cap MatchingPlaces(console_databases[l].key) = {}

----------------------------------------------------------------------------
(* C11 *)

\* a document generate_html_site wrote, not one of the user's
IsGenerated(index) == index # <<>> /\ index[1] # EditedDocument

\* C11: in every run of generations and user edits of docs/, a step of the
\* program leaves style.css and script.js as they are when they exist and
\* writes them only when they are absent, and every generation leaves in
\* index.html the document of that generation, whatever was there before.
C11_AssetsWrittenOnceIndexAlways ==
    [][ /\ (pc' # pc /\ docs.css # "absent") => docs'.css = docs.css
        /\ (pc' # pc /\ docs.js # "absent") => docs'.js = docs.js
        /\ (pc = "reported" /\ pc' = "done") =>
              /\ docs.css = "absent" => docs'.css = "generated"
              /\ docs.js = "absent" => docs'.js = "generated"
              /\ docs'.index = <<html_content(dead_consoles, console_databases, clock)>>
              /\ docs.index # <<>> /\ docs.index[1] = EditedDocument =>
                    docs'.index # docs.index ]_vars

\* the second generation is done: it found the user's style.css and left it,
\* found no script.js and wrote it, and put its own document, of a later
\* time, in the place of the first generation's
C11_Witness ==
    /\ pc = "done"
    /\ runs # <<>>
    /\ IsGenerated(runs[1].index)
    /\ docs.css = "edited"
    /\ Printed("generating_css") = <<>>
    /\ docs.js = "generated"
    /\ Printed("generating_js") # <<>>
    /\ IsGenerated(docs.index)
    /\ docs.index[1].generated = clock
    /\ docs.index[1].generated > runs[1].index[1].generated

----------------------------------------------------------------------------
(* C12 *)

\* a document without its timestamps
SansStamp(doc) == [doc EXCEPT !.generated = 0]

\* a report without the time of its "Report generated" line
ReportSansStamp(report) ==
    [i \in 1..Len(report) |->
        IF report[i].tag = "report_generated" THEN Line("report_generated", 0)
        ELSE report[i]]

\* C12: a run of main() on the inputs of an earlier run ends as that run
\* ended, prints its report but for the time in it, and writes its document
\* but for the timestamps; what the earlier run made, docs/, is never taken
\* for a catalog.
C12_RerunSameButTimestamps ==
    /\ \A k \in 1..Len(console_databases) : console_databases[k].val.filename # DOCS
    /\ \A r \in 1..Len(runs) :
        pc \in {"done", "crashed"} =>
            /\ exc = runs[r].exc
            /\ ReportSansStamp(ReportOf(stdout)) = ReportSansStamp(runs[r].report)
            /\ (pc = "done" /\ IsGenerated(docs.index) /\ IsGenerated(runs[r].index)) =>
                  SansStamp(docs.index[1]) = SansStamp(runs[r].index[1])

\* the second run is done a tick after the first, docs/ still there: the two
\* documents, of a progress card and game cards, differ, and only in the time
C12_Witness ==
    /\ pc = "done"
    /\ Len(runs) = 1
    /\ IsGenerated(runs[1].index)
    /\ IsGenerated(docs.index)
    /\ docs.index[1] # runs[1].index[1]
    /\ docs.index[1].cards # <<>>
    /\ docs.index[1].games # <<>>
    /\ Printed("created_dir") = <<>>
    /\ Printed("report_generated")[1].val = 1

----------------------------------------------------------------------------
(* C13 *)

\* the slug of a name: its letters in lower case, a hyphen for each space
SlugOf(name) ==
    [i \in 1..Len(name) |-> IF name[i] = " " THEN "-" ELSE LowerChar[name[i]]]

\* the game cards of the site
GameCards == IF docs.index = <<>> THEN <<>> ELSE docs.index[1].games

\* C13: in the site of a finished run, every discovered catalog has one
\* progress entry when a reference console's name holds its derived name and
\* none when no name does; and the games of a catalog without a match are
\* all there as game cards, in their order, under the derived name and the
\* slug of the derived name.
C13_OneEntryIfMatchedCardsAnyway ==
    pc = "done" =>
        \A k \in 1..Len(console_databases) :
            LET name == console_databases[k].key
                db == console_databases[k].val
                mine == {i \in 1..Len(Entries) : Entries[i].filename = db.filename}
                cards == SelectSeq(GameCards, LAMBDA card : card.console_name = name)
            IN  /\ Cardinality(mine) = IF MatchingPlaces(name) # {} THEN 1 ELSE 0
                /\ MatchingPlaces(name) = {} =>
                      /\ Len(cards) = db.game_count
                      /\ \A i \in 1..Len(cards) :
                            /\ cards[i].title = db.data.games[i].title
                            /\ cards[i].console_key = SlugOf(name)

\* the catalog Game Boy Advance, of two games, beside references that do not
\* hold its name: no entry, and two game cards under game-boy-advance
C13_Witness ==
    /\ pc = "done"
    /\ Refs # <<>>
    /\ \E k \in 1..Len(console_databases) :
          /\ console_databases[k].key = GAME_BOY_ADVANCE
          /\ MatchingPlaces(GAME_BOY_ADVANCE) = {}
          /\ \A e \in RangeOf(Entries) : e.filename # console_databases[k].val.filename
    /\ \E card \in RangeOf(GameCards) :
          card.console_key = <<"g","a","m","e","-","b","o","y","-","a","d","v","a","n","c","e">>
    /\ Entries # <<>>

----------------------------------------------------------------------------
(* C14 *)

\* the progress cards of the site
ProgressCards == IF docs.index = <<>> THEN <<>> ELSE docs.index[1].cards

\* the tier a CSS class of the status badge stands for
TierOfClass(class) ==
    CASE class = "status-complete" -> "Complete"
      [] class = "status-nearly" -> "Nearly Done"
      [] class = "status-progress" -> "In Progress"
      [] class = "status-started" -> "Started"
      [] class = "status-minimal" -> "Minimal"
      [] class = "status-none" -> "Not Started"

\* C14 (as claimed): the class of the status badge of every progress card
\* stands for the tier that is the status of the card's entry.
C14_BadgeClassIsStatusTier ==
    \A card \in RangeOf(ProgressCards) :
        TierOfClass(card.status_class) = card.console.status

----------------------------------------------------------------------------
(* C15 *)

\* C15 (as claimed): the bar printed for every entry is 30 cells wide, of
\* which floor(30 * percentage_complete / 100) are filled and the rest are not.
C15_BarThirtyCellsFloorFilled ==
    \A line \in RangeOf(Printed("detail")) :
        LET pct == line.val.entry.percentage_complete
        IN  /\ line.val.filled + line.val.unfilled = 30
            /\ 100 * 100 * line.val.filled <= 30 * pct
            /\ 30 * pct < 100 * 100 * (line.val.filled + 1)

----------------------------------------------------------------------------
(* C16 *)

\* the missing-consoles block of the site: no block, or one with its items
MissingBlock == IF docs.index = <<>> THEN <<>> ELSE docs.index[1].missing

\* a list of consoles is in descending order of total_official_games
Descending(consoles) ==
    \A i, j \in 1..Len(consoles) :
        i < j => consoles[i].total_official_games >= consoles[j].total_official_games

\* C16: the missing list, returned and printed, is in descending order of
\* total_official_games; the site has no missing block when no console is
\* missing, and else one block, of all the missing consoles when they are 12
\* or fewer and of 12 of them when they are more, in descending order, none
\* with fewer official games than a console left out.
C16_MissingSortedBlockTopTwelve ==
    pc = "done" =>
        /\ Descending(Missing)
        /\ Descending(MissingPrinted)
        /\ Len(MissingPrinted) = Len(Missing)
        /\ Missing = <<>> <=> MissingBlock = <<>>
        /\ Missing # <<>> =>
              LET shown == MissingBlock[1]
                  out == {c \in RangeOf(Missing) : c \notin RangeOf(shown)}
              IN  /\ Len(MissingBlock) = 1
                  /\ Len(shown) = IF Len(Missing) <= 12 THEN Len(Missing) ELSE 12
                  /\ Cardinality(RangeOf(shown)) = Len(shown)
                  /\ RangeOf(shown) \subseteq RangeOf(Missing)
                  /\ Descending(shown)
                  /\ \A c \in out : \A d \in RangeOf(shown) :
                        c.total_official_games <= d.total_official_games

\* thirteen consoles are missing, listed with the totals rising: the block
\* has twelve, and the first of the list, of the fewest games, is left out
C16_Witness ==
    /\ pc = "done"
    /\ Len(Missing) = 13
    /\ Len(MissingBlock[1]) = 12
    /\ Refs[1].total_official_games < Refs[2].total_official_games
    /\ Refs[1] \in RangeOf(Missing)
    /\ Refs[1] \notin RangeOf(MissingBlock[1])

----------------------------------------------------------------------------
(* C17 *)

\* out is "Mon DD, YYYY" for the date written in the first ten characters of
\* v: the month's name, the day in two digits, the year in its four
IsMonDDYYYY(out, v) ==
    /\ Len(out) = 12
    /\ SubSeq(out, 1, 3) = MONTHS[IntOf(SubSeq(v, 6, 7))]
    /\ out[4] = " "
    /\ SubSeq(out, 5, 6) = (IF v[9] = " " THEN <<"0", v[10]>> ELSE SubSeq(v, 9, 10))
    /\ SubSeq(out, 7, 8) = <<",", " ">>
    /\ SubSeq(out, 9, 12) = SubSeq(v, 1, 4)

\* what the claim has format_date return for the release date of a game
ClaimedDate(game, out) ==
    IF "release_date" \notin DOMAIN game THEN out = UNKNOWN
    ELSE LET v == game.release_date
         IN  IF v = <<>> \/ v = UNKNOWN THEN out = UNKNOWN
             ELSE IF Len(v) = 4 THEN out = v
             ELSE IF Len(v) >= 10 /\ strptime(SubSeq(v, 1, 10)).ok
                  THEN IsMonDDYYYY(out, v)
                  ELSE out = v

\* C17 (as claimed): no release date makes the run fail, and the card of
\* every game shows, for its release date: Unknown when it is absent, empty
\* or Unknown; the value when it has 4 characters; "Mon DD, YYYY" when it has
\* 10 or more and the first 10 parse as a date; the value in every other case.
C17_FormatDateAsClaimed ==
    /\ pc # "crashed"
    /\ pc = "done" =>
        \A k \in 1..Len(console_databases) :
            LET games == console_databases[k].val.data.games
                cards == SelectSeq(GameCards,
                            LAMBDA card : card.console_name \in
                                {console_databases[k].key,
                                 DictGet(get_console_info(dead_consoles,
                                             console_databases[k].key),
                                         "console", <<>>)})
            IN  \A i \in 1..Len(games) : ClaimedDate(games[i], cards[i].released)

----------------------------------------------------------------------------
(* C18 *)

\* C18 (as claimed): when the construction has returned, every file of the
\* directory whose name ends with _games.json and whose document has a games
\* field is in console_databases with its own filename and the number of its
\* games, and every database is of a file whose name ends with _games.json.
C18_OneCatalogPerValidFile ==
    pc \in {"constructed", "reported", "done"} =>
        /\ \A f \in RangeOf(fs_dir) :
              IsValidCatalog(f) =>
                  \E k \in 1..Len(console_databases) :
                      /\ console_databases[k].val.filename = f.filename
                      /\ console_databases[k].val.game_count = Len(f.content.fields.games)
        /\ \A k \in 1..Len(console_databases) :
              /\ endswith(console_databases[k].val.filename, GAMES_SUFFIX)
              /\ \E f \in RangeOf(fs_dir) : f.filename = console_databases[k].val.filename

----------------------------------------------------------------------------
(* C19 *)

\* the sum of total_official_games over the reference list
RECURSIVE TargetOf(_)
TargetOf(consoles) ==
    IF consoles = <<>> THEN 0
    ELSE Head(consoles).total_official_games + TargetOf(Tail(consoles))

\* C19 (as claimed): no two entries of calculate_progress are for one
\* reference console; so the summary's number of created databases is at most
\* the number of reference consoles, and the target of the overall progress
\* is at most the sum of the consoles' official games.
C19_NoTwoEntriesForOneConsole ==
    pc = "done" =>
        /\ \A i, j \in 1..Len(Entries) :
              i # j => Entries[i].console # Entries[j].console
        /\ Printed("databases_created")[1].val <= Printed("total_consoles")[1].val
        /\ \A line \in RangeOf(Printed("overall")) : line.val.target <= TargetOf(Refs)

====
